---- MODULE Spec2Model ----
(***************************************************************************)
(* A model of ctpl::thread_pool (src/ctpl_stl.h): the task queue, the      *)
(* worker loop of setup_thread, push, resize, interrupt and restart, at    *)
(* the granularity of the atomic operations of the code (one queue         *)
(* operation under the queue's mutex, one load or store of an atomic, one  *)
(* critical section of m_mutex).                                           *)
(*                                                                         *)
(* Threads of the model: the worker threads the pool starts, one           *)
(* controller thread that calls resize / interrupt / restart (the code     *)
(* asks for these to come from one thread, ctpl_stl.h:107), and one client *)
(* thread that calls push and get.                                         *)
(***************************************************************************)
EXTENDS Integers, Sequences, FiniteSets, TLC

\* ------------------------------------------------------------------ bounds
MaxTasks   == 2   \* push calls made by the client
MaxThreads == 3   \* worker threads started over the pool's life
MaxSize    == 2   \* largest nThreads passed to resize
MaxOps     == 3   \* resize / interrupt / restart calls made by the controller

\* Stands for SIZE_MAX, the value a size_t takes when 0 is decremented. Only
\* "larger than every vector length" matters to the code that reads it.
SizeMax == 2147483647

Tids  == 1..MaxThreads
Tasks == 1..MaxTasks
TaskKinds == {"value", "throw"}   \* a task returns a value or throws

VARIABLES
    m_queue,       \* detail::Queue::m_queue: sequence of task ids (function pointers)
    ma_interrupt,  \* std::atomic<bool>
    ma_kill,       \* std::atomic<bool>
    ma_n_idle,     \* std::atomic<size_t>
    m_threads,     \* vector of thread handles: sequence of thread ids
    m_abort,       \* vector of shared_ptr<atomic<bool>>: sequence of flag ids
    abort,         \* the atomic<bool> each flag id points to
    m_mutex,       \* TRUE while some thread holds m_mutex
    wpc,           \* position of each worker thread in the lambda of setup_thread
    wf,            \* the worker's local _f (0: no live function held)
    more_tasks,    \* the worker's local more_tasks
    nthreads,      \* number of threads started so far
    cpc,           \* position of the controller thread
    cn,            \* resize: nThreads of the call in progress
    ci,            \* resize / interrupt: the loop index i (a size_t)
    in_restart,    \* the interrupt in progress was called by restart()
    cops,          \* number of controller calls made
    ppc,           \* position of the client thread inside push
    pt,            \* the task of the push in progress
    ntasks,        \* number of push calls made
    kind,          \* what each task does when run
    outcome,       \* shared state of each task's packaged_task
    future,        \* the std::future push returned for each task
    execs,         \* history: times each task's function began to run
    deqs,          \* history: times each task was removed from the queue
    crashed,       \* the process ended in undefined behaviour
    oob,           \* a vector was indexed outside its bounds
    cop,           \* history: the controller's call in progress, or its last call
                   \* ("noop", "resize_noop": an interrupt, a resize that found
                   \* the pool shut down)
    csnap,         \* history: the tasks whose push had returned when that call began
    got,           \* what the client's last get() on each future delivered
    adeqs,         \* history: tasks each worker dequeued after its abort flag was set
    aexecs         \* history: tasks each worker began to run after its abort flag was set

wvars == <<wpc, wf, more_tasks>>
cvars == <<cpc, cn, ci, in_restart, cops, cop, csnap>>
pvars == <<ppc, pt, ntasks, kind, future, got>>
vars  == <<m_queue, ma_interrupt, ma_kill, ma_n_idle, m_threads, m_abort, abort,
           m_mutex, wpc, wf, more_tasks, nthreads, cpc, cn, ci, in_restart, cops,
           ppc, pt, ntasks, kind, outcome, future, execs, deqs, crashed, oob,
           cop, csnap, got, adeqs, aexecs>>

\* ------------------------------------------------------------ size_t
SizeDec(n) == IF n = 0 THEN SizeMax ELSE n - 1
SizeInc(n) == IF n = SizeMax THEN 0 ELSE n + 1

Cap2(n) == IF n >= 2 THEN 2 ELSE n + 1

\* ------------------------------------------------------------ detail::Queue
\* Mutant of QueuePush: the element is put at the front.
QueuePushFront(q, v) == <<v>> \o q
QueuePush(q, v) == Append(q, v)
QueueEmpty(q)   == q = <<>>
QueueFront(q)   == Head(q)
\* Mutant of QueuePopped: pop returns the front element without removing it.
QueuePoppedKeepsFront(q) == q
QueuePopped(q)  == Tail(q)

\* ------------------------------------------------------------ init
Init ==
    /\ m_queue = <<>>
    /\ ma_interrupt = FALSE /\ ma_kill = FALSE /\ ma_n_idle = 0
    /\ m_threads = <<>> /\ m_abort = <<>>
    /\ abort = [w \in Tids |-> FALSE]
    /\ m_mutex = FALSE
    /\ wpc = [w \in Tids |-> "unborn"]
    /\ wf = [w \in Tids |-> 0]
    /\ more_tasks = [w \in Tids |-> FALSE]
    /\ nthreads = 0
    /\ cpc = "idle" /\ cn = 0 /\ ci = 0 /\ in_restart = FALSE /\ cops = 0
    /\ ppc = "idle" /\ pt = 0 /\ ntasks = 0
    /\ kind = [t \in Tasks |-> "value"]
    /\ outcome = [t \in Tasks |-> "none"]
    /\ future = [t \in Tasks |-> "none"]
    /\ execs = [t \in Tasks |-> 0]
    /\ deqs = [t \in Tasks |-> 0]
    /\ crashed = FALSE /\ oob = FALSE
    /\ cop = "none" /\ csnap = {}
    /\ got = [t \in Tasks |-> "none"]
    /\ adeqs = [w \in Tids |-> 0]
    /\ aexecs = [w \in Tids |-> 0]

\* ------------------------------------------------------------ tasks
\* Mutant of TaskResult: the exception a task throws is not stored.
TaskResultDropsFailure(k) == "value"
\* Outcome the packaged_task stores when its function runs (push, line 199:
\* a packaged_task stores the returned value, or the exception thrown).
TaskResult(k) == IF k = "throw" THEN "exception" ELSE "value"

\* push holds its own shared_ptr pck from line 199 until it returns.
PckHeldByPush(t) == ppc \in {"enq", "notify"} /\ pt = t

\* Mutant of DeleteFunction: the function is dropped without being destroyed.
DeleteFunctionLeaks(oc, t) == oc
\* The std::function of task t is destroyed (delete _f, line 224). It holds a
\* copy of pck; push holds the only other one until it returns. Destroying
\* the last owner destroys the packaged_task, and a packaged_task destroyed
\* before it ran stores broken_promise in its shared state.
DeleteFunction(oc, t) ==
    IF oc[t] = "pending" /\ ~PckHeldByPush(t)
    THEN [oc EXCEPT ![t] = "broken_promise"] ELSE oc

\* Workers blocked inside m_cond.wait.
Waiting == {w \in Tids : wpc[w] = "wait"}

\* Mutant of NotifyAll: the notification reaches no worker.
NotifyAllLost(pc) == pc
\* m_cond.notify_all(): every blocked worker leaves the wait and must
\* re-acquire m_mutex.
NotifyAll(pc) == [w \in Tids |-> IF pc[w] = "wait" THEN "wake" ELSE pc[w]]

\* ------------------------------------------------------------ worker
\* bool more_tasks = m_queue.pop(_f) as worker w executes it (Queue::pop,
\* lines 61-68): on an empty queue _f is left alone and the result is false.
PopInto(w) ==
    IF QueueEmpty(m_queue)
    THEN /\ more_tasks' = [more_tasks EXCEPT ![w] = FALSE]
         /\ UNCHANGED <<m_queue, wf, deqs, adeqs, aexecs>>
    ELSE /\ wf' = [wf EXCEPT ![w] = QueueFront(m_queue)]
         /\ m_queue' = QueuePopped(m_queue)
         /\ more_tasks' = [more_tasks EXCEPT ![w] = TRUE]
         /\ deqs' = [deqs EXCEPT ![QueueFront(m_queue)] = Cap2(@)]
         /\ adeqs' = [adeqs EXCEPT ![w] = IF abort[w] THEN Cap2(@) ELSE @]
         /\ UNCHANGED aexecs

\* more_tasks = m_queue.pop(_f): line 243 (the thread starts) and line 255,
\* followed by the tests of while (more_tasks), line 247.
WorkerPop(w) ==
    /\ ~crashed /\ wpc[w] = "pop"
    /\ PopInto(w)
    /\ wpc' = [wpc EXCEPT ![w] = IF QueueEmpty(m_queue) THEN "lock" ELSE "exec"]
    /\ UNCHANGED <<ma_interrupt, ma_kill, ma_n_idle, m_threads, m_abort, abort,
                   m_mutex, nthreads, cvars, pvars, outcome, execs, crashed, oob>>

\* (*_f)(i) is entered: line 251.
WorkerExecBegin(w) ==
    /\ ~crashed /\ wpc[w] = "exec"
    /\ execs' = [execs EXCEPT ![wf[w]] = Cap2(@)]
    /\ aexecs' = [aexecs EXCEPT ![w] = IF abort[w] THEN Cap2(@) ELSE @]
    /\ wpc' = [wpc EXCEPT ![w] = "running"]
    /\ UNCHANGED <<m_queue, ma_interrupt, ma_kill, ma_n_idle, m_threads, m_abort,
                   abort, m_mutex, wf, more_tasks, nthreads, cvars, pvars, outcome,
                   deqs, crashed, oob, adeqs>>

\* (*_f)(i) returns: the packaged_task has stored the outcome; the unique_ptr
\* func deletes the function at the end of the iteration (lines 250-251).
WorkerExecEnd(w) ==
    /\ ~crashed /\ wpc[w] = "running"
    /\ outcome' = [outcome EXCEPT ![wf[w]] = TaskResult(kind[wf[w]])]
    /\ wf' = [wf EXCEPT ![w] = 0]
    /\ wpc' = [wpc EXCEPT ![w] = "chk"]
    /\ UNCHANGED <<m_queue, ma_interrupt, ma_kill, ma_n_idle, m_threads, m_abort,
                   abort, m_mutex, more_tasks, nthreads, cvars, pvars, execs, deqs,
                   crashed, oob, adeqs, aexecs>>

\* Mutant of ReturnsAfterTask: the flag stops a worker only in a killed pool.
ReturnsAfterTaskIfKilled(w) == abort[w] /\ ma_kill
\* Mutant of ReturnsAfterTask: the worker goes on draining whatever its flag says.
ReturnsAfterTaskNever(w) == FALSE
\* if (abort) return: line 252.
ReturnsAfterTask(w) == abort[w]

\* if (abort) return; else pop: lines 252-255.
WorkerCheckAbort(w) ==
    /\ ~crashed /\ wpc[w] = "chk"
    /\ wpc' = [wpc EXCEPT ![w] = IF ReturnsAfterTask(w) THEN "done" ELSE "pop"]
    /\ UNCHANGED <<m_queue, ma_interrupt, ma_kill, ma_n_idle, m_threads, m_abort,
                   abort, m_mutex, wf, more_tasks, nthreads, cvars, pvars, outcome,
                   execs, deqs, crashed, oob, adeqs, aexecs>>

\* unique_lock lock(m_mutex); ++ma_n_idle: lines 259-260.
WorkerLock(w) ==
    /\ ~crashed /\ wpc[w] = "lock" /\ ~m_mutex
    /\ m_mutex' = TRUE
    /\ ma_n_idle' = SizeInc(ma_n_idle)
    /\ wpc' = [wpc EXCEPT ![w] = "pred"]
    /\ UNCHANGED <<m_queue, ma_interrupt, ma_kill, m_threads, m_abort, abort, wf,
                   more_tasks, nthreads, cvars, pvars, outcome, execs, deqs, crashed, oob, adeqs, aexecs>>

\* The wait predicate's first statement, more_tasks = m_queue.pop(_f): line 261.
WorkerPredPop(w) ==
    /\ ~crashed /\ wpc[w] = "pred"
    /\ PopInto(w)
    /\ wpc' = [wpc EXCEPT ![w] = "flags"]
    /\ UNCHANGED <<ma_interrupt, ma_kill, ma_n_idle, m_threads, m_abort, abort,
                   m_mutex, nthreads, cvars, pvars, outcome, execs, crashed, oob>>

\* The predicate's result, abort || ma_interrupt || more_tasks, and what
\* follows it: either the worker blocks in m_cond.wait (releasing m_mutex), or
\* wait returns, --ma_n_idle, and the worker leaves ("if (!more_tasks)
\* return") or goes round the loop; both release m_mutex. Lines 261-264.
WaitPredicate(w) == abort[w] \/ ma_interrupt \/ more_tasks[w]

\* Mutant of LeavesAfterWait: an aborted worker leaves even with a task in hand.
LeavesAfterWaitOnAbort(w) == ~more_tasks[w] \/ abort[w]
\* if (!more_tasks) return: line 263.
LeavesAfterWait(w) == ~more_tasks[w]

WorkerPredFlags(w) ==
    /\ ~crashed /\ wpc[w] = "flags"
    /\ m_mutex' = FALSE
    /\ IF WaitPredicate(w)
       THEN /\ ma_n_idle' = SizeDec(ma_n_idle)
            /\ wpc' = [wpc EXCEPT ![w] = IF LeavesAfterWait(w) THEN "done" ELSE "exec"]
       ELSE /\ wpc' = [wpc EXCEPT ![w] = "wait"]
            /\ UNCHANGED ma_n_idle
    /\ UNCHANGED <<m_queue, ma_interrupt, ma_kill, m_threads, m_abort, abort, wf,
                   more_tasks, nthreads, cvars, pvars, outcome, execs, deqs, crashed, oob, adeqs, aexecs>>

\* A notified worker re-acquires m_mutex before it evaluates the predicate again.
WorkerWake(w) ==
    /\ ~crashed /\ wpc[w] = "wake" /\ ~m_mutex
    /\ m_mutex' = TRUE
    /\ wpc' = [wpc EXCEPT ![w] = "pred"]
    /\ UNCHANGED <<m_queue, ma_interrupt, ma_kill, ma_n_idle, m_threads, m_abort,
                   abort, wf, more_tasks, nthreads, cvars, pvars, outcome, execs,
                   deqs, crashed, oob, adeqs, aexecs>>

\* std::condition_variable::wait may wake without a notification.
WorkerSpuriousWake(w) ==
    /\ ~crashed /\ wpc[w] = "wait"
    /\ wpc' = [wpc EXCEPT ![w] = "wake"]
    /\ UNCHANGED <<m_queue, ma_interrupt, ma_kill, ma_n_idle, m_threads, m_abort,
                   abort, m_mutex, wf, more_tasks, nthreads, cvars, pvars, outcome,
                   execs, deqs, crashed, oob, adeqs, aexecs>>

Worker(w) ==
    \/ WorkerPop(w)
    \/ WorkerExecBegin(w)
    \/ WorkerExecEnd(w)
    \/ WorkerCheckAbort(w)
    \/ WorkerLock(w)
    \/ WorkerPredPop(w)
    \/ WorkerPredFlags(w)
    \/ WorkerWake(w)

\* ------------------------------------------------------------ push
\* push is entered and loads ma_kill (line 197, left operand).
PushBegin(k) ==
    /\ ~crashed /\ ppc = "idle" /\ ntasks < MaxTasks
    /\ ntasks' = ntasks + 1
    /\ pt' = ntasks + 1
    /\ kind' = [kind EXCEPT ![ntasks + 1] = k]
    /\ IF ma_kill
       THEN /\ future' = [future EXCEPT ![ntasks + 1] = "invalid"]   \* line 207
            /\ ppc' = "idle"
       ELSE /\ ppc' = "chk" /\ UNCHANGED future
    /\ UNCHANGED <<m_queue, ma_interrupt, ma_kill, ma_n_idle, m_threads, m_abort,
                   abort, m_mutex, wvars, nthreads, cvars, outcome, execs, deqs, got,
                   crashed, oob, adeqs, aexecs>>

\* push loads ma_interrupt (line 197, right operand); if clear it builds the
\* packaged_task and the function (lines 199-200).
PushCheckInterrupt ==
    /\ ~crashed /\ ppc = "chk"
    /\ IF ma_interrupt
       THEN /\ future' = [future EXCEPT ![pt] = "invalid"]           \* line 207
            /\ ppc' = "idle"
            /\ UNCHANGED outcome
       ELSE /\ outcome' = [outcome EXCEPT ![pt] = "pending"]
            /\ ppc' = "enq"
            /\ UNCHANGED future
    /\ UNCHANGED <<m_queue, ma_interrupt, ma_kill, ma_n_idle, m_threads, m_abort,
                   abort, m_mutex, wvars, nthreads, cvars, pt, ntasks, kind, execs,
                   deqs, got, crashed, oob, adeqs, aexecs>>

\* m_queue.push(_f): line 202 (Queue::push, 55-59).
PushEnqueue ==
    /\ ~crashed /\ ppc = "enq"
    /\ m_queue' = QueuePush(m_queue, pt)
    /\ ppc' = "notify"
    /\ UNCHANGED <<ma_interrupt, ma_kill, ma_n_idle, m_threads, m_abort, abort,
                   m_mutex, wvars, nthreads, cvars, pt, ntasks, kind, outcome,
                   future, execs, deqs, got, crashed, oob, adeqs, aexecs>>

\* Mutant of NotifyOne: the notification reaches no worker.
NotifyOneLost(pc, w) == pc
\* m_cond.notify_one(): one blocked worker, if there is any, leaves the wait.
NotifyOne(pc, w) == [pc EXCEPT ![w] = "wake"]

\* The function of task t is alive: it is queued or a worker holds it.
FunctionAlive(q, f, t) ==
    \/ \E i \in 1..Len(q) : q[i] = t
    \/ \E w \in Tids : f[w] = t

\* lock m_mutex; notify_one; return pck->get_future(): lines 203-205. The lock
\* and push's pck are released on return; if the function is already gone,
\* pck was the last owner of a packaged_task that never ran.
PushNotify ==
    /\ ~crashed /\ ppc = "notify" /\ ~m_mutex
    /\ \/ Waiting = {} /\ UNCHANGED wpc
       \/ \E w \in Waiting : wpc' = NotifyOne(wpc, w)
    /\ future' = [future EXCEPT ![pt] = "valid"]
    /\ outcome' = IF outcome[pt] = "pending" /\ ~FunctionAlive(m_queue, wf, pt)
                  THEN [outcome EXCEPT ![pt] = "broken_promise"] ELSE outcome
    /\ ppc' = "idle"
    /\ UNCHANGED <<m_queue, ma_interrupt, ma_kill, ma_n_idle, m_threads, m_abort,
                   abort, m_mutex, wf, more_tasks, nthreads, cvars, pt, ntasks, kind,
                   execs, deqs, got, crashed, oob, adeqs, aexecs>>

Push ==
    \/ \E k \in TaskKinds : PushBegin(k)
    \/ PushCheckInterrupt
    \/ PushEnqueue
    \/ PushNotify

\* ------------------------------------------------------------ get
\* What std::future::get delivers when the future has a shared state that is
\* ready: the stored value, or the stored exception rethrown.
Delivered(oc) == oc

\* The client calls get() on the future of task t and the shared state is
\* ready (while it is not, get() blocks). get() releases the shared state:
\* the future is left with valid() == false. Call sites: example.cpp:57, 65.
GetReady(t) ==
    /\ ~crashed /\ ppc = "idle"
    /\ future[t] = "valid"
    /\ outcome[t] \notin {"none", "pending"}
    /\ got' = [got EXCEPT ![t] = Delivered(outcome[t])]
    /\ future' = [future EXCEPT ![t] = "consumed"]
    /\ UNCHANGED <<m_queue, ma_interrupt, ma_kill, ma_n_idle, m_threads, m_abort,
                   abort, m_mutex, wvars, nthreads, cvars, ppc, pt, ntasks, kind,
                   outcome, execs, deqs, crashed, oob, adeqs, aexecs>>

\* The client calls get() on a future without shared state: the one push
\* returned from line 207, or one a get() has already emptied. The call is
\* undefined behaviour: a standard library either throws
\* future_error(no_state) or dereferences the null state and the process dies.
GetNoState(t) ==
    /\ ~crashed /\ ppc = "idle"
    /\ future[t] \in {"invalid", "consumed"}
    /\ \/ got' = [got EXCEPT ![t] = "no_state"] /\ UNCHANGED crashed
       \/ got' = [got EXCEPT ![t] = "crash"] /\ crashed' = TRUE
    /\ UNCHANGED <<m_queue, ma_interrupt, ma_kill, ma_n_idle, m_threads, m_abort,
                   abort, m_mutex, wvars, nthreads, cvars, ppc, pt, ntasks, kind,
                   future, outcome, execs, deqs, oob, adeqs, aexecs>>

Get ==
    \/ \E t \in Tasks : GetReady(t)
    \/ \E t \in Tasks : GetNoState(t)

\* ------------------------------------------------------------ resize
\* The tasks whose push has returned a valid future.
Submitted == {t \in Tasks : future[t] \in {"valid", "consumed"}}

\* The i-th element (0-based, as in the code) of a vector.
At(v, i) == v[i + 1]
InRange(v, i) == i < Len(v)

\* Lines 114-121: the vectors grow to nThreads; each new slot gets a fresh
\* abort flag and a started thread, whose lambda begins at line 243.
NewTids(oldN, n) == [j \in 1..(n - oldN) |-> nthreads + j]

\* Mutant of ResizeAllowed: only the kill-flag stops a resize.
ResizeAllowedUnlessKilled == ~ma_kill
\* if (!ma_kill && !ma_interrupt): line 109.
ResizeAllowed == ~ma_kill /\ ~ma_interrupt

\* resize(n) is entered: lines 109-123. The grow branch runs to its end
\* here; the shrink branch sets up its loop.
ResizeBegin(n) ==
    /\ ~crashed /\ cpc = "idle" /\ cops < MaxOps
    /\ cops' = cops + 1 /\ csnap' = Submitted
    /\ cop' = IF ResizeAllowed THEN "resize" ELSE "resize_noop"
    /\ cn' = n
    /\ IF ~ResizeAllowed
       THEN UNCHANGED <<m_threads, m_abort, abort, wpc, nthreads, cpc, ci>>
       ELSE IF Len(m_threads) <= n
       THEN /\ nthreads + (n - Len(m_threads)) <= MaxThreads
            /\ m_threads' = m_threads \o NewTids(Len(m_threads), n)
            /\ m_abort' = m_abort \o NewTids(Len(m_threads), n)
            /\ abort' = [w \in Tids |->
                           IF w \in nthreads + 1 .. nthreads + (n - Len(m_threads))
                           THEN FALSE ELSE abort[w]]
            /\ wpc' = [w \in Tids |->
                           IF w \in nthreads + 1 .. nthreads + (n - Len(m_threads))
                           THEN "pop" ELSE wpc[w]]
            /\ nthreads' = nthreads + (n - Len(m_threads))
            /\ UNCHANGED <<cpc, ci>>
       ELSE /\ ci' = SizeDec(Len(m_threads))
            /\ cpc' = "shrink"
            /\ UNCHANGED <<m_threads, m_abort, abort, wpc, nthreads>>
    /\ UNCHANGED <<m_queue, ma_interrupt, ma_kill, ma_n_idle, m_mutex, wf,
                   more_tasks, in_restart, pvars, outcome, execs, deqs, crashed, oob, adeqs, aexecs>>

\* One iteration of the loop of lines 125-129 with i inside the vectors:
\* *m_abort[i] = true; m_threads[i]->detach(); --i.
ResizeShrinkStep ==
    /\ ~crashed /\ cpc = "shrink"
    /\ ci >= cn /\ InRange(m_abort, ci)
    /\ abort' = [abort EXCEPT ![At(m_abort, ci)] = TRUE]
    /\ ci' = SizeDec(ci)
    /\ UNCHANGED <<m_queue, ma_interrupt, ma_kill, ma_n_idle, m_threads, m_abort,
                   m_mutex, wvars, nthreads, cpc, cn, in_restart, cops, cop, csnap,
                   pvars, outcome, execs, deqs, crashed, oob, adeqs, aexecs>>

\* One iteration of the same loop with i outside the vectors (i is a size_t:
\* with nThreads = 0 the test i >= nThreads never fails and --i wraps).
\* m_abort[i] is undefined behaviour: the process crashes, or the store lands
\* in memory the pool does not own and the loop goes on with the next stray
\* index (every later index is outside the vectors as well, so i is left as
\* it is).
ResizeShrinkOutOfRange ==
    /\ ~crashed /\ cpc = "shrink"
    /\ ci >= cn /\ ~InRange(m_abort, ci)
    /\ oob' = TRUE
    /\ crashed' \in BOOLEAN
    /\ UNCHANGED <<m_queue, ma_interrupt, ma_kill, ma_n_idle, m_threads, m_abort,
                   abort, m_mutex, wvars, nthreads, cvars, pvars, outcome, execs, deqs,
                   adeqs, aexecs>>

\* The loop has ended: lock m_mutex, notify_all, unlock, then truncate both
\* vectors to nThreads. Lines 130-136.
ResizeShrinkEnd ==
    /\ ~crashed /\ cpc = "shrink"
    /\ ci < cn /\ ~m_mutex
    /\ wpc' = NotifyAll(wpc)
    /\ m_threads' = SubSeq(m_threads, 1, cn)
    /\ m_abort' = SubSeq(m_abort, 1, cn)
    /\ cpc' = "idle"
    /\ UNCHANGED <<m_queue, ma_interrupt, ma_kill, ma_n_idle, abort, m_mutex, wf,
                   more_tasks, nthreads, cn, ci, in_restart, cops, cop, csnap, pvars,
                   outcome, execs, deqs, crashed, oob, adeqs, aexecs>>

Resize ==
    \/ \E n \in 0..MaxSize : ResizeBegin(n)
    \/ ResizeShrinkStep
    \/ ResizeShrinkOutOfRange
    \/ ResizeShrinkEnd

\* ------------------------------------------------------------ interrupt
\* Where the controller goes when interrupt returns: back to the caller, or, inside
\* restart(), on to init() (line 103).
InterruptReturn ==
    IF in_restart THEN "init_idle"
    ELSE IF cop = "dtor" THEN "destroyed" ELSE "idle"
InterruptReturnOf(r) == IF r THEN "init_idle" ELSE "idle"

\* Mutant of AlreadyShutDown: interrupt(false) looks at the kill-flag only.
AlreadyShutDownKillOnly(kill) == ma_kill
\* The tests of lines 146 and 153 that make interrupt return at once.
AlreadyShutDown(kill) == IF kill THEN ma_kill ELSE ma_interrupt \/ ma_kill

\* interrupt(kill) is entered, from the caller (r = FALSE) or from restart()
\* (r = TRUE, kill = FALSE, line 102): lines 145-155.
InterruptEnter(kill, r) ==
    /\ in_restart' = r
    /\ ci' = 0
    /\ IF AlreadyShutDown(kill)
       THEN /\ cpc' = InterruptReturnOf(r)
            /\ UNCHANGED <<ma_kill, ma_interrupt>>
       ELSE IF kill
            THEN /\ ma_kill' = TRUE
                 /\ cpc' = IF Len(m_threads) = 0 THEN "notify" ELSE "kill_abort"
                 /\ UNCHANGED ma_interrupt
            ELSE /\ ma_interrupt' = TRUE
                 /\ cpc' = "notify"
                 /\ UNCHANGED ma_kill

InterruptBegin(kill) ==
    /\ ~crashed /\ cpc = "idle" /\ cops < MaxOps
    /\ cops' = cops + 1
    /\ cop' = IF AlreadyShutDown(kill) THEN "noop"
               ELSE IF kill THEN "kill" ELSE "interrupt"
    /\ csnap' = Submitted
    /\ InterruptEnter(kill, FALSE)
    /\ UNCHANGED <<m_queue, ma_n_idle, m_threads, m_abort, abort, m_mutex, wvars,
                   nthreads, cn, pvars, outcome, execs, deqs, crashed, oob, adeqs, aexecs>>

\* restart() is entered: it calls interrupt(false), line 102.
RestartBegin ==
    /\ ~crashed /\ cpc = "idle" /\ cops < MaxOps
    /\ cops' = cops + 1 /\ cop' = "restart"
    /\ csnap' = Submitted
    /\ InterruptEnter(FALSE, TRUE)
    /\ UNCHANGED <<m_queue, ma_n_idle, m_threads, m_abort, abort, m_mutex, wvars,
                   nthreads, cn, pvars, outcome, execs, deqs, crashed, oob, adeqs, aexecs>>

\* One iteration of the loop of lines 149-150: *m_abort[i] = true.
InterruptKillAbort ==
    /\ ~crashed /\ cpc = "kill_abort"
    /\ abort' = [abort EXCEPT ![At(m_abort, ci)] = TRUE]
    /\ ci' = ci + 1
    /\ cpc' = IF ci + 1 < Len(m_threads) THEN "kill_abort" ELSE "notify"
    /\ UNCHANGED <<m_queue, ma_interrupt, ma_kill, ma_n_idle, m_threads, m_abort,
                   m_mutex, wvars, nthreads, cn, in_restart, cops, cop, csnap, pvars,
                   outcome, execs, deqs, crashed, oob, adeqs, aexecs>>

\* lock m_mutex; notify_all; unlock: lines 157-160.
InterruptNotify ==
    /\ ~crashed /\ cpc = "notify" /\ ~m_mutex
    /\ wpc' = NotifyAll(wpc)
    /\ ci' = 0
    /\ cpc' = IF Len(m_threads) = 0 THEN "clear" ELSE "join"
    /\ UNCHANGED <<m_queue, ma_interrupt, ma_kill, ma_n_idle, m_threads, m_abort,
                   abort, m_mutex, wf, more_tasks, nthreads, cn, in_restart, cops,
                   cop, csnap, pvars, outcome, execs, deqs, crashed, oob, adeqs, aexecs>>

\* One iteration of the loop of lines 162-166: m_threads[i]->join() returns
\* when that thread has left its lambda. (Every thread still in m_threads is
\* joinable: resize removes the ones it detaches.)
InterruptJoin ==
    /\ ~crashed /\ cpc = "join"
    /\ wpc[At(m_threads, ci)] = "done"
    /\ ci' = ci + 1
    /\ cpc' = IF ci + 1 < Len(m_threads) THEN "join" ELSE "clear"
    /\ UNCHANGED <<m_queue, ma_interrupt, ma_kill, ma_n_idle, m_threads, m_abort,
                   abort, m_mutex, wvars, nthreads, cn, in_restart, cops, cop, csnap,
                   pvars, outcome, execs, deqs, crashed, oob, adeqs, aexecs>>

\* clear_queue, one iteration with a successful pop: delete _f. Lines 223-224.
ClearQueueStep ==
    /\ ~crashed /\ cpc = "clear"
    /\ ~QueueEmpty(m_queue)
    /\ m_queue' = QueuePopped(m_queue)
    /\ deqs' = [deqs EXCEPT ![QueueFront(m_queue)] = Cap2(@)]
    /\ outcome' = DeleteFunction(outcome, QueueFront(m_queue))
    /\ UNCHANGED <<ma_interrupt, ma_kill, ma_n_idle, m_threads, m_abort, abort,
                   m_mutex, wvars, nthreads, cvars, pvars, execs, crashed, oob, adeqs, aexecs>>

\* clear_queue's pop finds the queue empty; m_threads.clear(); m_abort.clear();
\* interrupt returns. Lines 223, 170-172.
InterruptEnd ==
    /\ ~crashed /\ cpc = "clear"
    /\ QueueEmpty(m_queue)
    /\ m_threads' = <<>>
    /\ m_abort' = <<>>
    /\ cpc' = InterruptReturn
    /\ UNCHANGED <<m_queue, ma_interrupt, ma_kill, ma_n_idle, abort, m_mutex, wvars,
                   nthreads, cn, ci, in_restart, cops, cop, csnap, pvars, outcome,
                   execs, deqs, crashed, oob, adeqs, aexecs>>

Interrupt ==
    \/ \E kill \in BOOLEAN : InterruptBegin(kill)
    \/ InterruptKillAbort
    \/ InterruptNotify
    \/ InterruptJoin
    \/ ClearQueueStep
    \/ InterruptEnd

\* ------------------------------------------------------------ restart / init
\* init(), line 228, one atomic store at a time.
InitIdle ==
    /\ ~crashed /\ cpc = "init_idle"
    /\ ma_n_idle' = 0
    /\ cpc' = "init_kill"
    /\ UNCHANGED <<m_queue, ma_interrupt, ma_kill, m_threads, m_abort, abort, m_mutex,
                   wvars, nthreads, cn, ci, in_restart, cops, cop, csnap, pvars,
                   outcome, execs, deqs, crashed, oob, adeqs, aexecs>>

InitKill ==
    /\ ~crashed /\ cpc = "init_kill"
    /\ ma_kill' = FALSE
    /\ cpc' = "init_interrupt"
    /\ UNCHANGED <<m_queue, ma_interrupt, ma_n_idle, m_threads, m_abort, abort,
                   m_mutex, wvars, nthreads, cn, ci, in_restart, cops, cop, csnap,
                   pvars, outcome, execs, deqs, crashed, oob, adeqs, aexecs>>

InitInterrupt ==
    /\ ~crashed /\ cpc = "init_interrupt"
    /\ ma_interrupt' = FALSE
    /\ in_restart' = FALSE
    /\ cpc' = "idle"
    /\ UNCHANGED <<m_queue, ma_kill, ma_n_idle, m_threads, m_abort, abort, m_mutex,
                   wvars, nthreads, cn, ci, cops, cop, csnap, pvars, outcome, execs,
                   deqs, crashed, oob, adeqs, aexecs>>

Restart ==
    \/ RestartBegin
    \/ InitIdle
    \/ InitKill
    \/ InitInterrupt

\* ------------------------------------------------------------ specification
Next ==
    \/ \E w \in Tids : Worker(w)
    \/ \E w \in Tids : WorkerSpuriousWake(w)
    \/ Push
    \/ Resize
    \/ Interrupt
    \/ Restart

Spec == Init /\ [][Next]_vars

\* The same program with a client that also calls get() on the futures it holds.
NextGet ==
    \/ Next
    \/ Get

SpecGet == Init /\ [][NextGet]_vars

\* ------------------------------------------------------------ fair runs
\* The scheduler runs every started thread: a worker that can take its next
\* step takes it (the tasks of the model return), and a push that was entered
\* runs to its end. Nothing obliges the client to push or the controller to
\* call, and nothing obliges the condition variable to wake a worker without
\* a notification: the fair runs have no spurious wake-up, so a worker that
\* blocks stays blocked until it is notified.
WorkerFairness == \A w \in Tids : WF_vars(Worker(w))
PushFairness == WF_vars(PushCheckInterrupt \/ PushEnqueue \/ PushNotify)

\* resize(n) with n no smaller than size(): lines 112-122.
ResizeGrow == \E n \in 0..MaxSize : n >= Len(m_threads) /\ ResizeBegin(n)

\* The pool with no interrupt, no restart and no resize-down.
NextNoShutdown ==
    \/ \E w \in Tids : Worker(w)
    \/ Push
    \/ ResizeGrow

SpecNoShutdown ==
    Init /\ [][NextNoShutdown]_vars /\ WorkerFairness /\ PushFairness

\* resize(n) with n >= 1, growing or shrinking: at least one worker stays.
ResizeKeepingOne ==
    \/ \E n \in 1..MaxSize : ResizeBegin(n)
    \/ ResizeShrinkStep
    \/ ResizeShrinkEnd

\* A resize that was entered runs to its end.
ResizeFairness == WF_vars(ResizeShrinkStep \/ ResizeShrinkEnd)

\* The pool with no interrupt and no restart, never resized to 0.
NextResizeOnly ==
    \/ \E w \in Tids : Worker(w)
    \/ Push
    \/ ResizeKeepingOne

SpecResizeOnly ==
    Init /\ [][NextResizeOnly]_vars /\ WorkerFairness /\ PushFairness
         /\ ResizeFairness

\* An interrupt that was entered runs to its end: the controller's thread
\* runs, and join returns once the joined thread has left its lambda.
InterruptFairness ==
    WF_vars(InterruptKillAbort \/ InterruptNotify \/ InterruptJoin
              \/ ClearQueueStep \/ InterruptEnd)

\* The pool with resizes that keep a worker, and interrupt; no restart.
NextShutdown ==
    \/ \E w \in Tids : Worker(w)
    \/ Push
    \/ ResizeKeepingOne
    \/ Interrupt

SpecShutdown ==
    Init /\ [][NextShutdown]_vars /\ WorkerFairness /\ PushFairness
         /\ ResizeFairness /\ InterruptFairness

\* ------------------------------------------------------------ destructor
\* ~thread_pool() is entered: it calls interrupt(false), line 87. The owner
\* destroys the pool when no push is in progress. When interrupt returns the
\* members (queue, flags, mutex, condition variable) are destroyed.
DestructorBegin ==
    /\ ~crashed /\ cpc = "idle" /\ ppc = "idle"
    /\ cop' = "dtor" /\ csnap' = Submitted
    /\ in_restart' = FALSE /\ ci' = 0
    /\ IF ma_interrupt \/ ma_kill
       THEN cpc' = "destroyed" /\ UNCHANGED ma_interrupt
       ELSE ma_interrupt' = TRUE /\ cpc' = "notify"
    /\ UNCHANGED <<m_queue, ma_kill, ma_n_idle, m_threads, m_abort, abort, m_mutex,
                   wvars, nthreads, cn, cops, pvars, outcome, execs, deqs, crashed,
                   oob, adeqs, aexecs>>

\* The positions of the worker lambda whose next statement reads or writes a
\* member of the pool through the captured this: m_queue.pop (243, 255, 261),
\* m_mutex (259, 261), ma_n_idle (260, 262), ma_interrupt (261). The abort
\* flag is not one of them: the lambda owns a shared_ptr to it (line 236).
TouchesPool(w) == wpc[w] \in {"pop", "lock", "pred", "flags", "wait", "wake"}

\* A worker thread that is still running after the pool was destroyed
\* executes a statement that uses a destroyed member: undefined behaviour.
\* The process dies here, or the memory is still intact and the statement
\* does what it did before (the worker's ordinary actions).
WorkerUseAfterFree(w) ==
    /\ ~crashed /\ cpc = "destroyed"
    /\ TouchesPool(w)
    /\ crashed' = TRUE
    /\ UNCHANGED <<m_queue, ma_interrupt, ma_kill, ma_n_idle, m_threads, m_abort,
                   abort, m_mutex, wvars, nthreads, cvars, pvars, outcome, execs,
                   deqs, oob, adeqs, aexecs>>

\* The pool and its owner, who ends by destroying it; the client makes no
\* call on a destroyed pool.
NextDtor ==
    \/ \E w \in Tids : Worker(w)
    \/ \E w \in Tids : WorkerSpuriousWake(w)
    \/ cpc # "destroyed" /\ Push
    \/ Resize
    \/ Interrupt
    \/ Restart
    \/ DestructorBegin
    \/ \E w \in Tids : WorkerUseAfterFree(w)

SpecDtor == Init /\ [][NextDtor]_vars

\* ====================================================================
\* Properties
\* ====================================================================

\* The number of places task t's function pointer is held in: queue positions
\* and workers' _f.
Holders(t) ==
    Cardinality({i \in 1..Len(m_queue) : m_queue[i] = t})
      + Cardinality({w \in Tids : wf[w] = t})

\* C2: in every interleaving of push, the worker loops, resize and interrupt,
\* a task is removed from the queue at most once and is executed at most once,
\* by at most one worker: it is never in two queue positions, never in the
\* queue and in a worker's hands, and never in the hands of two workers.
C2_DequeuedAndExecutedAtMostOnce ==
    \A t \in Tasks :
        /\ deqs[t] <= 1
        /\ execs[t] <= 1
        /\ Holders(t) <= 1
        /\ execs[t] <= deqs[t]

\* Two workers execute tasks at the same time while an interrupt is under way.
C2_Witness ==
    /\ cop = "interrupt"
    /\ \E w1, w2 \in Tids :
         /\ w1 # w2
         /\ wpc[w1] = "running" /\ wpc[w2] = "running"
         /\ wf[w1] # wf[w2]

\* Tasks are numbered in the order the client's push calls are made, and a
\* push enqueues before it returns: a smaller number is an earlier enqueue.
EnqueuedBefore(a, b) == a < b

\* The tasks that leave the queue in a step.
DequeuedInStep == {t \in Tasks : deqs'[t] > deqs[t]}
InQueue(q) == {q[i] : i \in 1..Len(q)}

\* C3: FIFO dequeue order. Every step that removes a task from the queue
\* removes the earliest-enqueued task of those in the queue: no task B is
\* dequeued while a task A enqueued before it is still queued.
C3_FifoDequeue ==
    [][\A b \in DequeuedInStep :
          /\ b \in InQueue(m_queue)
          /\ \A a \in InQueue(m_queue) : ~EnqueuedBefore(a, b)]_vars

\* A worker holds the first task while the second, enqueued later, is still queued.
C3_Witness ==
    /\ Len(m_queue) >= 1
    /\ \E w \in Tids : wf[w] # 0 /\ EnqueuedBefore(wf[w], m_queue[1])

\* Task t was executed once and its shared state holds its own result.
ExecutedOnce(t) ==
    /\ outcome[t] = TaskResult(kind[t])
    /\ execs[t] = 1 /\ deqs[t] = 1

\* C1: with at least one worker in the pool and no interrupt, kill or
\* resize-down, every task an accepted push submits is eventually executed,
\* exactly once, and the future push returns holds the task's own outcome; no
\* task stays queued while a worker sits in the idle wait.
C1_EveryTaskExecuted ==
    \A t \in Tasks :
        [](outcome[t] = "pending" /\ Len(m_threads) >= 1
             => <>(ExecutedOnce(t) /\ future[t] = "valid"))

\* A worker has found the queue empty in the wait predicate and has not yet
\* blocked, and the client has enqueued a task and not yet notified.
C1_Witness ==
    /\ ppc = "notify" /\ m_queue # <<>>
    /\ \E w \in Tids : wpc[w] = "flags" /\ ~more_tasks[w]

\* The controller's last call was op, it did not return at once, and it has returned.
Returned(op) == cop = op /\ cpc = "idle"

\* C4: when interrupt(false) returns, whatever the number of workers was,
\* every task whose push had returned before the call has been executed by a
\* worker and its shared state holds the task's own outcome (no queued task
\* is discarded unexecuted).
C4_GracefulShutdownDrains ==
    Returned("interrupt") =>
        \A t \in csnap : outcome[t] = TaskResult(kind[t]) /\ execs[t] = 1

\* Worker w removes a task from the queue in this step.
Dequeues(w) == wf[w] = 0 /\ wf'[w] # 0

\* interrupt(true) has set the kill flag and every abort flag of the pool,
\* and no restart has followed.
KillRequested == cop = "kill" /\ cpc \in {"notify", "join", "clear", "idle"}

Discarded(t) ==
    /\ deqs[t] >= 1 /\ execs[t] = 0
    /\ \A w \in Tids : wf[w] # t

\* The shared state of task t is ready.
Resolved(t) == outcome[t] \in {"value", "exception", "broken_promise"}

C7_RejectedPushSignalsOnGet ==
    \A t \in Tasks :
        future[t] = "invalid" =>
            /\ outcome[t] = "none"
            /\ t \notin InQueue(m_queue)
            /\ deqs[t] = 0 /\ execs[t] = 0
            /\ got[t] \in {"none", "no_state"}

\* C8: resize(n) with 0 <= n < size() on a pool that is not shut down touches
\* no index outside the vectors, and when it has returned size() = n and the
\* abort flags of the workers 0..n-1 it kept are unset.
C8_ResizeDownIndexSafe ==
    /\ ~oob
    /\ Returned("resize") =>
          /\ Len(m_threads) = cn /\ Len(m_abort) = cn
          /\ \A i \in 1..Len(m_abort) : ~abort[m_abort[i]]

\* The tasks an accepted push has put in the queue and no one has taken out.
StillQueued == {t \in Tasks : outcome[t] = "pending" /\ deqs[t] = 0 /\ ~PckHeldByPush(t)}

\* C10: resize(0) on a pool that is not shut down ends with size() = 0 and the
\* pool alive: the call does not bring the process down, and once it has
\* returned every task pushed and not yet taken stays queued.
C10_EmptiedPoolStillAccepts ==
    cop = "resize" /\ cn = 0 =>
        /\ ~crashed
        /\ cpc = "idle" =>
              /\ Len(m_threads) = 0
              /\ StillQueued \subseteq InQueue(m_queue)

\* C9: with resizes that keep at least one worker (growing or shrinking) and
\* no shutdown, every task that is queued, or was taken from the queue, is
\* eventually executed, exactly once: by a worker that stays or by one that
\* resize removed, before it exits.
C9_ResizeDownLosesNoTask ==
    \A t \in Tasks :
        []((t \in InQueue(m_queue) /\ Len(m_threads) >= 1) \/ deqs[t] >= 1
              => <>ExecutedOnce(t))

\* A worker removed by resize executes a task it dequeued after its abort flag
\* was set, while another task is still queued for the workers that stay.
C9_Witness ==
    /\ cop = "resize" /\ Len(m_threads) >= 1
    /\ m_queue # <<>>
    /\ \E w \in Tids : abort[w] /\ adeqs[w] = 1 /\ wpc[w] = "running"

\* The step in which restart() returns: the last store of init(), line 228.
RestartReturns == cop = "restart" /\ cpc = "init_interrupt" /\ cpc' = "idle"

\* C11 (state after restart): when restart() returns, in whatever state it was
\* called, the interrupt-flag and the kill-flag are clear, idle-count is 0,
\* size() is 0 and the queue is empty.
C11_RestartReinitialises ==
    [][RestartReturns =>
          /\ ~ma_interrupt' /\ ~ma_kill'
          /\ ma_n_idle' = 0
          /\ Len(m_threads') = 0
          /\ m_queue' = <<>>]_vars

\* The worker threads that were started and have not left their lambda.
LiveWorkers == {w \in Tids : wpc[w] \notin {"unborn", "done"}}

\* C12: once the destructor has returned, every worker thread the pool ever
\* started, the ones an earlier resize-down removed included, has terminated,
\* so none uses a member of the pool afterwards.
C12_NoWorkerOutlivesPool ==
    cpc = "destroyed" => LiveWorkers = {}

\* What interrupt and resize may change of the pool: the queue, the flags,
\* the worker set, the abort flags, idle-count, and the worker threads.
poolState == <<m_queue, ma_interrupt, ma_kill, ma_n_idle, m_threads, m_abort,
               abort, m_mutex, wpc, wf, more_tasks, nthreads>>

\* C13: interrupt(false) called with the interrupt-flag or the kill-flag set,
\* and interrupt(true) called with the kill-flag set, return at once and
\* change nothing: flags, worker set, abort flags, queue and idle-count are
\* what they were, no worker is woken and nothing is joined or cleared.
C13_InterruptIdempotent ==
    [][\A kill \in BOOLEAN :
          InterruptBegin(kill) /\ (ma_kill \/ (~kill /\ ma_interrupt)) =>
              /\ cpc' = "idle"
              /\ UNCHANGED poolState]_vars

\* A second interrupt(false) has returned at once on a pool that the first had shut down.
C13_Witness ==
    /\ cop = "noop" /\ cpc = "idle"
    /\ ma_interrupt /\ ~ma_kill

\* C14: resize(n) called with the interrupt-flag or the kill-flag set changes
\* nothing, for every n: worker set, abort flags, queue, flags and idle-count
\* are what they were, no thread is started, detached or woken, and size()
\* keeps its value.
C14_ResizeNoOpAfterShutdown ==
    [][\A n \in 0..MaxSize :
          ResizeBegin(n) /\ (ma_kill \/ ma_interrupt) =>
              /\ cpc' = "idle"
              /\ UNCHANGED poolState]_vars

\* resize(n) with n >= 1 has returned on a shut-down pool and no worker exists.
C14_Witness ==
    /\ cop = "resize_noop" /\ cpc = "idle"
    /\ cn >= 1 /\ Len(m_threads) = 0

\* Worker w's call (*_f)(i) of a task that throws comes to its end in this step.
FailingTaskEnds(w) ==
    /\ wpc[w] = "running" /\ wpc'[w] # "running"
    /\ kind[wf[w]] = "throw"

\* C15: when a task throws, the exception is stored as that task's outcome;
\* the worker that ran it is not terminated by it and goes on to the test of
\* its abort flag, from where, the flag unset, it dequeues again; the outcome
\* of every other task and the pool's flags are left as they were.
C15_TaskFailureStaysLocal ==
    /\ [][\A w \in Tids : FailingTaskEnds(w) =>
              /\ outcome'[wf[w]] = "exception"
              /\ wpc'[w] = "chk" /\ ~crashed'
              /\ \A t \in Tasks \ {wf[w]} : outcome'[t] = outcome[t]
              /\ UNCHANGED <<ma_interrupt, ma_kill, abort>>]_vars
    /\ [][\A w \in Tids :
              wpc[w] = "chk" /\ ~abort[w] /\ wpc'[w] # "chk" => wpc'[w] = "pop"]_vars

\* The only worker ever started ran a task that threw and is now running the next one.
C15_Witness ==
    /\ nthreads = 1 /\ ntasks = 2
    /\ kind[1] = "throw" /\ outcome[1] = "exception"
    /\ wpc[1] = "running" /\ wf[1] = 2

\* C16: get() may be called any number of times on the future push returned:
\* whatever number of calls the client has made, the last one delivered the
\* task's outcome (the value, or the exception the task threw).
C16_RepeatableGet ==
    \A t \in Tasks :
        future[t] \in {"valid", "consumed"} /\ got[t] # "none" =>
            got[t] = Delivered(outcome[t])

\* An interrupt that did not return at once is under way.
InterruptUnderWay == cop \in {"interrupt", "kill"} /\ cpc # "idle"

\* C17: the tasks of the model terminate and no task calls interrupt. Every
\* interrupt(false) and interrupt(true) the controller enters returns, with
\* size() = 0; and in the step that ends it (lines 170-171) every worker that
\* was in the worker set has left its lambda: none was left blocked in the
\* idle wait.
C17_ShutdownTerminates ==
    /\ [](InterruptUnderWay => <>(cpc = "idle" /\ Len(m_threads) = 0))
    /\ [][InterruptUnderWay /\ cpc' = "idle" =>
              \A i \in 1..Len(m_threads) : wpc[m_threads[i]] = "done"]_vars

\* interrupt waits in join for a worker that its notify_all took out of the
\* idle wait and that has not yet re-acquired m_mutex.
C17_Witness ==
    /\ InterruptUnderWay /\ cpc = "join"
    /\ \E i \in 1..Len(m_threads) : wpc[m_threads[i]] = "wake"

\* C18: once interrupt(false) or interrupt(true) has returned, and until
\* restart(), whatever push ran beside it has come to its end: the queue is
\* empty, and every future a push returned as valid has its outcome (the
\* task's own or the abandoned one) or its task is in the hands of a worker
\* that will run it.
C18_NoTaskStrandedByShutdown ==
    (Returned("interrupt") \/ Returned("kill")) /\ ppc = "idle" =>
        /\ m_queue = <<>>
        /\ \A t \in Submitted : Resolved(t) \/ \E w \in Tids : wf[w] = t

\* The live workers that have executed ++ma_n_idle (line 260) and not yet
\* --ma_n_idle (line 262).
RegisteredIdle == {w \in Tids : wpc[w] \in {"pred", "flags", "wait", "wake"}}

\* C19: across push, resize up and down, interrupt and restart, idle-count
\* is the number of live workers between their increment and their decrement
\* around the idle wait; so it is at most the number of live workers and the
\* unsigned counter never wraps below 0.
C19_IdleCountExact ==
    /\ ma_n_idle = Cardinality(RegisteredIdle)
    /\ ma_n_idle <= Cardinality(LiveWorkers)

\* C20: from the moment its abort flag is set, by resize-down or by
\* interrupt(true), a worker begins to run at most one further task, wherever
\* in its loop it was; and having finished a task with its flag set it
\* leaves its lambda, whatever the queue holds.
C20_BoundedWorkAfterAbort ==
    /\ [](\A w \in Tids : aexecs[w] <= 1)
    /\ [][\A w \in Tids :
              abort[w] /\ wpc[w] = "chk" /\ wpc'[w] # "chk" => wpc'[w] = "done"]_vars

\* A worker that resize removed has run one task after its flag was set and
\* has terminated, leaving a task in the queue.
C20_Witness ==
    /\ ~ma_kill /\ m_queue # <<>>
    /\ \E w \in Tids : abort[w] /\ aexecs[w] = 1 /\ wpc[w] = "done"

====
